---- MODULE Spec2Model ----
(***************************************************************************)
(* Model of tfx/orchestration/portable/execution_publish_utils.py:         *)
(* registering an execution in MLMD and publishing it as cached,           *)
(* succeeded, failed or internal, with the merge of the executor's output  *)
(* artifacts into the system-generated output skeleton.                    *)
(*                                                                         *)
(* The MLMD store is the five variables executions, artifacts, events,     *)
(* associations and attributions.  The caller's argument objects that the  *)
(* functions read or mutate in place (output_artifacts, executor_output,   *)
(* input_artifacts, contexts) are variables too; execution_id and the      *)
(* registration arguments are chosen per call.  op, execution_id, result   *)
(* and returned record the last call and how it ended.                     *)
(***************************************************************************)
EXTENDS Integers, Sequences, FiniteSets, TLC

VARIABLES executions, artifacts, events, associations, attributions,
          output_artifacts, executor_output, input_artifacts, contexts,
          op, execution_id, result, returned

store == <<executions, artifacts, events, associations, attributions>>
args == <<output_artifacts, executor_output, input_artifacts, contexts>>
vars == <<executions, artifacts, events, associations, attributions,
          output_artifacts, executor_output, input_artifacts, contexts,
          op, execution_id, result, returned>>

----------------------------------------------------------------------------
(* Bounds *)

\* longest artifact list of one channel
MaxLen == 2
\* most artifacts in one skeleton, and in one executor output
MaxArtifacts == 2
\* most executions registered in one behaviour
MaxExecutions == 2

----------------------------------------------------------------------------
(* Values *)

\* Channel names; dicts iterate in insertion order, here "a" before "b".
\* "x" is a key that no skeleton has.
ChannelOrder == <<"a", "b">>
SkeletonKeys == {"a", "b"}
UnknownKey == "x"

EmptyMap == [c \in {} |-> <<>>]

\* An Optional[...] argument: None, or a value.
None == [present |-> FALSE, value |-> EmptyMap]
Some(v) == [present |-> TRUE, value |-> v]

\* metadata_store_pb2.Artifact; id 0 and state "UNKNOWN" are the unset fields.
Artifact(id, type_id, state, uri, props) ==
  [id |-> id, type_id |-> type_id, state |-> state, uri |-> uri,
   custom_properties |-> props]

\* The artifacts the store holds before any call, by id.
StoredBefore ==
  [i \in {1, 2} |-> Artifact(i, 1, "LIVE", "s", "sp")]

\* System-generated output artifacts: not yet published, or already stored.
SkeletonArtifacts ==
  { Artifact(0, 1, "PENDING", "s", "sp"),
    Artifact(0, 2, "PENDING", "s", "sp"),
    Artifact(1, 1, "PENDING", "s", "sp") }

\* Artifacts as the executor reports them.
ReportedArtifacts ==
  { Artifact(0, 1, "UNKNOWN", "r", "rp"),
    Artifact(0, 2, "UNKNOWN", "r", "rp"),
    Artifact(2, 1, "UNKNOWN", "r", "rp") }

RECURSIVE SeqsUpTo(_, _)
SeqsUpTo(S, n) ==
  IF n = 0 THEN {<<>>}
  ELSE LET shorter == SeqsUpTo(S, n - 1)
       IN shorter \cup {Append(s, e) : s \in {t \in shorter : Len(t) = n - 1}, e \in S}

\* dict iteration order of a mapping
Keys(mapping) == SelectSeq(ChannelOrder \o <<UnknownKey>>, LAMBDA c : c \in DOMAIN mapping)

RECURSIVE FlatFrom(_, _, _)
FlatFrom(mapping, keys, k) ==
  IF k > Len(keys) THEN <<>>
  ELSE mapping[keys[k]] \o FlatFrom(mapping, keys, k + 1)

\* the artifacts of a mapping, channel after channel
Flat(mapping) == FlatFrom(mapping, Keys(mapping), 1)

Mappings(keys, values, maxLen, maxTotal) ==
  { m \in UNION { [ks -> SeqsUpTo(values, maxLen)] : ks \in SUBSET keys } :
      Len(Flat(m)) <= maxTotal }

\* m with one more key, which holds the list.
With(m, key, list) ==
  [c \in DOMAIN m \cup {key} |-> IF c = key THEN list ELSE m[c]]

\* Executor outputs over the keys, with and without a channel under UnknownKey.
ExecutorOutputs(keys, maxLen, maxTotal) ==
  LET known == Mappings(keys, ReportedArtifacts, maxLen, maxTotal)
  IN known \cup {With(m, UnknownKey, <<Artifact(0, 1, "UNKNOWN", "r", "rp")>>) : m \in known}

----------------------------------------------------------------------------
(* The merge of the executor output into the output skeleton,              *)
(* publish_succeeded_execution lines 85-108                                *)

Ok == "ok"
UnknownChannel == "unknown_channel"
PartialChannelUpdate == "partial_channel_update"
ArtifactTypeChanged == "artifact_type_changed"
NotFound == "not_found"
MergeErrors == {UnknownChannel, PartialChannelUpdate, ArtifactTypeChanged}

\* Mutant of CopyFrom: the uri of the target survives the copy.
CopyFrom_keeps_uri(original, updated) == [updated EXCEPT !.uri = original.uri]

\* original.mlmd_artifact.CopyFrom(updated): the target is cleared and every
\* field of updated, the id included, is copied into it.
CopyFrom(original, updated) == updated

\* Mutant of TypeChanged: the type check is dropped.
TypeChanged_never(original, updated) == FALSE

\* The type check of one positional pair, line 101.
TypeChanged(original, updated) == original.type_id # updated.type_id

\* The zip loop over one channel, from position i on.  An artifact is
\* overwritten as soon as its own type check passes; a later mismatch raises
\* with the earlier positions already overwritten.
RECURSIVE MergeArtifactList(_, _, _)
MergeArtifactList(artifact_list, updated_artifact_list, i) ==
  IF i > Len(artifact_list)
  THEN [err |-> Ok, list |-> artifact_list]
  ELSE IF TypeChanged(artifact_list[i], updated_artifact_list[i])
       THEN [err |-> ArtifactTypeChanged, list |-> artifact_list]
       ELSE MergeArtifactList(
              [artifact_list EXCEPT ![i] = CopyFrom(@, updated_artifact_list[i])],
              updated_artifact_list, i + 1)

\* Mutant of MergeChannel: only a shorter reported list is refused; zip stops
\* at the end of the skeleton's list.
MergeChannel_shorter_only(artifact_list, updated_artifact_list) ==
  IF Len(updated_artifact_list) < Len(artifact_list)
  THEN [err |-> PartialChannelUpdate, list |-> artifact_list]
  ELSE MergeArtifactList(artifact_list, updated_artifact_list, 1)

\* Mutant of MergeChannel: only the first positional pair is type-checked.
MergeChannel_first_pair(artifact_list, updated_artifact_list) ==
  IF Len(artifact_list) # Len(updated_artifact_list)
  THEN [err |-> PartialChannelUpdate, list |-> artifact_list]
  ELSE IF Len(artifact_list) > 0
          /\ artifact_list[1].type_id # updated_artifact_list[1].type_id
       THEN [err |-> ArtifactTypeChanged, list |-> artifact_list]
       ELSE [err |-> Ok,
             list |-> [i \in 1..Len(artifact_list) |->
                         CopyFrom(artifact_list[i], updated_artifact_list[i])]]

\* One pass of the loop over output_artifacts.items() for one key.
MergeChannel(artifact_list, updated_artifact_list) ==
  IF Len(artifact_list) # Len(updated_artifact_list)
  THEN [err |-> PartialChannelUpdate, list |-> artifact_list]
  ELSE MergeArtifactList(artifact_list, updated_artifact_list, 1)

\* The loop over output_artifacts.items(), from the k-th key on.
RECURSIVE MergeChannels(_, _, _, _)
MergeChannels(skeleton, updates, keys, k) ==
  IF k > Len(keys)
  THEN [err |-> Ok, skeleton |-> skeleton]
  ELSE LET key == keys[k]
       IN IF key \notin DOMAIN updates
          THEN MergeChannels(skeleton, updates, keys, k + 1)
          ELSE LET m == MergeChannel(skeleton[key], updates[key])
                   merged == [skeleton EXCEPT ![key] = m.list]
               IN IF m.err # Ok
                  THEN [err |-> m.err, skeleton |-> merged]
                  ELSE MergeChannels(merged, updates, keys, k + 1)

\* Mutant of KeysAreSubset: a proper subset is asked for.
KeysAreSubset_proper(updates, skeleton) ==
  DOMAIN updates \subseteq DOMAIN skeleton /\ DOMAIN updates # DOMAIN skeleton

\* The subset check of the executor's keys.
KeysAreSubset(updates, skeleton) == DOMAIN updates \subseteq DOMAIN skeleton

\* Mutant of Merge: the keys are checked after the channels are merged.
Merge_subset_last(skeleton, report) ==
  IF ~report.present
  THEN [err |-> Ok, skeleton |-> skeleton]
  ELSE LET m == MergeChannels(skeleton, report.value, Keys(skeleton), 1)
       IN IF m.err = Ok /\ ~KeysAreSubset(report.value, skeleton)
          THEN [err |-> UnknownChannel, skeleton |-> m.skeleton]
          ELSE m

\* Lines 86-103: `if executor_output:` holds for every message, an empty one
\* included.  skeleton is the dict after `output_artifacts or {}`.
Merge(skeleton, report) ==
  IF ~report.present
  THEN [err |-> Ok, skeleton |-> skeleton]
  ELSE IF ~KeysAreSubset(report.value, skeleton)
       THEN [err |-> UnknownChannel, skeleton |-> skeleton]
       ELSE MergeChannels(skeleton, report.value, Keys(skeleton), 1)

\* Mutant of MarkLive: each artifact is replaced by a new LIVE artifact of
\* the same id and type.
MarkLive_replaces(skeleton) ==
  [key \in DOMAIN skeleton |->
     [i \in 1..Len(skeleton[key]) |->
        Artifact(skeleton[key][i].id, skeleton[key][i].type_id, "LIVE", "", "")]]

\* Mutant of MarkLive: only the first artifact of each channel is marked.
MarkLive_first_only(skeleton) ==
  [key \in DOMAIN skeleton |->
     [i \in 1..Len(skeleton[key]) |->
        IF i = 1 THEN [skeleton[key][i] EXCEPT !.state = "LIVE"] ELSE skeleton[key][i]]]

\* Lines 105-108: marks output artifacts as LIVE.
MarkLive(skeleton) ==
  [key \in DOMAIN skeleton |->
     [i \in 1..Len(skeleton[key]) |-> [skeleton[key][i] EXCEPT !.state = "LIVE"]]]

----------------------------------------------------------------------------
(* The record store adapter: execution_lib and the MLMD store              *)

ExecutionType == "t"

\* metadata_store_pb2.Execution; id 0 is the unset id.
Execution(id, type, state, properties) ==
  [id |-> id, type |-> type, last_known_state |-> state, properties |-> properties]

NoExecution == Execution(0, "none", "UNKNOWN", "none")

\* store.get_executions_by_id([execution_id]): the stored executions with
\* that id, none when the id is unknown.
get_executions_by_id(id) ==
  IF id \in DOMAIN executions THEN <<executions[id]>> ELSE <<>>

\* execution_lib.prepare_execution: a new execution of the given type, state
\* and properties, without an id.
prepare_execution(execution_type, state, exec_properties) ==
  Execution(0, execution_type, state, exec_properties)

\* Ids for the artifacts of a list that have none, counting up from next.
RECURSIVE AssignIds(_, _)
AssignIds(list, next) ==
  IF list = <<>> THEN <<>>
  ELSE IF Head(list).id = 0
       THEN <<[Head(list) EXCEPT !.id = next]>> \o AssignIds(Tail(list), next + 1)
       ELSE <<Head(list)>> \o AssignIds(Tail(list), next)

RECURSIVE OffsetOf(_, _, _, _)
OffsetOf(mapping, keys, k, key) ==
  IF keys[k] = key THEN 0
  ELSE Len(mapping[keys[k]]) + OffsetOf(mapping, keys, k + 1, key)

\* The mapping with its artifacts replaced, in order, by those of flat.
Unflat(mapping, flat) ==
  [key \in DOMAIN mapping |->
     SubSeq(flat, OffsetOf(mapping, Keys(mapping), 1, key) + 1,
                  OffsetOf(mapping, Keys(mapping), 1, key) + Len(mapping[key]))]

NextArtifactId == Cardinality(DOMAIN artifacts) + 1
NextExecutionId == Cardinality(DOMAIN executions) + 1

\* The last artifact of list that has the id.
LastWithId(list, id) ==
  list[CHOOSE i \in 1..Len(list) :
         /\ list[i].id = id
         /\ \A j \in (i + 1)..Len(list) : list[j].id # id]

\* execution_lib.put_execution as one durable unit: the execution is created
\* (no id) or updated, every artifact is created (no id) or updated, an event
\* of the given type links each artifact to the execution, every context is
\* associated with the execution and attributed to the input artifacts.  The
\* store-assigned ids are written back to the execution and the artifacts.
put_execution(execution, ctxs, inputs, outputs, output_event_type) ==
  LET eid == IF execution.id = 0 THEN NextExecutionId ELSE execution.id
      stored == [execution EXCEPT !.id = eid]
      ins == IF inputs.present THEN inputs.value ELSE EmptyMap
      outs == IF outputs.present THEN outputs.value ELSE EmptyMap
      nin == Len(Flat(ins))
      all == AssignIds(Flat(ins) \o Flat(outs), NextArtifactId)
      flatIn == SubSeq(all, 1, nin)
      flatOut == SubSeq(all, nin + 1, Len(all))
      ids == {all[i].id : i \in 1..Len(all)}
  IN [executions |-> [i \in DOMAIN executions \cup {eid} |->
                        IF i = eid THEN stored ELSE executions[i]],
      artifacts |-> [i \in DOMAIN artifacts \cup ids |->
                       IF i \in ids THEN LastWithId(all, i) ELSE artifacts[i]],
      events |-> events
                 \cup {[execution_id |-> eid, artifact_id |-> flatIn[i].id,
                        type |-> "INPUT"] : i \in 1..Len(flatIn)}
                 \cup {[execution_id |-> eid, artifact_id |-> flatOut[i].id,
                        type |-> output_event_type] : i \in 1..Len(flatOut)},
      associations |-> associations
                 \cup {<<ctxs[i], eid>> : i \in 1..Len(ctxs)},
      attributions |-> attributions
                 \cup {<<ctxs[i], flatIn[j].id>> : i \in 1..Len(ctxs), j \in 1..Len(flatIn)},
      execution |-> stored,
      input_artifacts |-> IF inputs.present THEN Some(Unflat(ins, flatIn)) ELSE inputs,
      output_artifacts |-> IF outputs.present THEN Some(Unflat(outs, flatOut)) ELSE outputs]

\* The store after a put.  Every publish of an artifact without an id adds a
\* record; the model stops adding them once the store holds as many new
\* records as the output skeleton has artifacts.
Stored(put) ==
  /\ Cardinality(DOMAIN put.artifacts) <=
       Cardinality(DOMAIN StoredBefore) + Len(Flat(output_artifacts.value))
  /\ executions' = put.executions
  /\ artifacts' = put.artifacts
  /\ events' = put.events
  /\ associations' = put.associations
  /\ attributions' = put.attributions

----------------------------------------------------------------------------
(* The five operations *)

\* Mutant of publish_succeeded_execution: the execution is loaded and put
\* before the merge error is raised.
publish_succeeded_execution_write_first(id) ==
  LET skeleton == IF output_artifacts.present THEN output_artifacts.value ELSE EmptyMap
      m == Merge(skeleton, executor_output)
      live == MarkLive(m.skeleton)
      found == get_executions_by_id(id)
  IN /\ op' = "publish_succeeded_execution"
     /\ execution_id' = id
     /\ returned' = NoExecution
     /\ UNCHANGED <<executor_output, input_artifacts, contexts>>
     /\ IF Len(found) # 1
        THEN /\ result' = IF m.err # Ok THEN m.err ELSE NotFound
             /\ output_artifacts' =
                  IF output_artifacts.present THEN Some(live) ELSE output_artifacts
             /\ UNCHANGED store
        ELSE LET execution == [found[1] EXCEPT !.last_known_state = "COMPLETE"]
                 put == put_execution(execution, contexts, None, Some(live), "OUTPUT")
             IN /\ result' = m.err
                /\ output_artifacts' =
                     IF output_artifacts.present THEN put.output_artifacts
                     ELSE output_artifacts
                /\ Stored(put)

\* Lines 52-114.
publish_succeeded_execution(id) ==
  LET skeleton == IF output_artifacts.present THEN output_artifacts.value ELSE EmptyMap
      m == Merge(skeleton, executor_output)
      live == MarkLive(m.skeleton)
      found == get_executions_by_id(id)
  IN /\ op' = "publish_succeeded_execution"
     /\ execution_id' = id
     /\ returned' = NoExecution
     /\ UNCHANGED <<executor_output, input_artifacts, contexts>>
     /\ IF m.err # Ok
        THEN /\ result' = m.err
             /\ output_artifacts' =
                  IF output_artifacts.present THEN Some(m.skeleton) ELSE output_artifacts
             /\ UNCHANGED store
        ELSE IF Len(found) # 1
        THEN /\ result' = NotFound
             /\ output_artifacts' =
                  IF output_artifacts.present THEN Some(live) ELSE output_artifacts
             /\ UNCHANGED store
        ELSE LET execution == [found[1] EXCEPT !.last_known_state = "COMPLETE"]
                 put == put_execution(execution, contexts, None, Some(live), "OUTPUT")
             IN /\ result' = Ok
                /\ output_artifacts' =
                     IF output_artifacts.present THEN put.output_artifacts
                     ELSE output_artifacts
                /\ Stored(put)

\* Mutant of publish_cached_execution: the execution that is put is built
\* anew from the id instead of loaded.
publish_cached_execution_rebuilt(id) ==
  LET found == get_executions_by_id(id)
  IN /\ op' = "publish_cached_execution"
     /\ execution_id' = id
     /\ returned' = NoExecution
     /\ UNCHANGED <<executor_output, input_artifacts, contexts>>
     /\ IF Len(found) # 1
        THEN /\ result' = NotFound
             /\ UNCHANGED <<output_artifacts, store>>
        ELSE LET execution == Execution(id, ExecutionType, "CACHED", "none")
                 put == put_execution(execution, contexts, None, output_artifacts, "OUTPUT")
             IN /\ result' = Ok
                /\ output_artifacts' = put.output_artifacts
                /\ Stored(put)

\* Mutant of publish_cached_execution: the artifacts are marked LIVE as on
\* the success path.
publish_cached_execution_marks_live(id) ==
  LET found == get_executions_by_id(id)
  IN /\ op' = "publish_cached_execution"
     /\ execution_id' = id
     /\ returned' = NoExecution
     /\ UNCHANGED <<executor_output, input_artifacts, contexts>>
     /\ IF Len(found) # 1
        THEN /\ result' = NotFound
             /\ UNCHANGED <<output_artifacts, store>>
        ELSE LET execution == [found[1] EXCEPT !.last_known_state = "CACHED"]
                 live == IF output_artifacts.present
                         THEN Some(MarkLive(output_artifacts.value))
                         ELSE output_artifacts
                 put == put_execution(execution, contexts, None, live, "OUTPUT")
             IN /\ result' = Ok
                /\ output_artifacts' = put.output_artifacts
                /\ Stored(put)

\* Lines 25-49.
publish_cached_execution(id) ==
  LET found == get_executions_by_id(id)
  IN /\ op' = "publish_cached_execution"
     /\ execution_id' = id
     /\ returned' = NoExecution
     /\ UNCHANGED <<executor_output, input_artifacts, contexts>>
     /\ IF Len(found) # 1
        THEN /\ result' = NotFound
             /\ UNCHANGED <<output_artifacts, store>>
        ELSE LET execution == [found[1] EXCEPT !.last_known_state = "CACHED"]
                 put == put_execution(execution, contexts, None, output_artifacts, "OUTPUT")
             IN /\ result' = Ok
                /\ output_artifacts' = put.output_artifacts
                /\ Stored(put)

\* Mutant of publish_failed_execution: an id that is not found gets a new
\* execution instead of an error.
publish_failed_execution_unchecked(id) ==
  LET found == get_executions_by_id(id)
      loaded == IF Len(found) = 1 THEN found[1]
                ELSE Execution(0, ExecutionType, "UNKNOWN", "none")
      execution == [loaded EXCEPT !.last_known_state = "FAILED"]
      put == put_execution(execution, contexts, None, None, "OUTPUT")
  IN /\ op' = "publish_failed_execution"
     /\ execution_id' = id
     /\ returned' = NoExecution
     /\ UNCHANGED args
     /\ result' = Ok
     /\ Stored(put)

\* Mutant of publish_failed_execution: only a RUNNING execution is accepted.
publish_failed_execution_running_only(id) ==
  LET found == get_executions_by_id(id)
  IN /\ op' = "publish_failed_execution"
     /\ execution_id' = id
     /\ returned' = NoExecution
     /\ UNCHANGED args
     /\ IF Len(found) # 1
        THEN /\ result' = NotFound
             /\ UNCHANGED store
        ELSE IF found[1].last_known_state # "RUNNING"
        THEN /\ result' = "not_running"
             /\ UNCHANGED store
        ELSE LET execution == [found[1] EXCEPT !.last_known_state = "FAILED"]
                 put == put_execution(execution, contexts, None, None, "OUTPUT")
             IN /\ result' = Ok
                /\ Stored(put)

\* Mutant of publish_failed_execution: the output artifacts are put with
\* the failed execution.
publish_failed_execution_with_outputs(id) ==
  LET found == get_executions_by_id(id)
  IN /\ op' = "publish_failed_execution"
     /\ execution_id' = id
     /\ returned' = NoExecution
     /\ UNCHANGED <<executor_output, input_artifacts, contexts>>
     /\ IF Len(found) # 1
        THEN /\ result' = NotFound
             /\ UNCHANGED <<output_artifacts, store>>
        ELSE LET execution == [found[1] EXCEPT !.last_known_state = "FAILED"]
                 put == put_execution(execution, contexts, None, output_artifacts, "OUTPUT")
             IN /\ result' = Ok
                /\ output_artifacts' = put.output_artifacts
                /\ Stored(put)

\* Lines 117-130.
publish_failed_execution(id) ==
  LET found == get_executions_by_id(id)
  IN /\ op' = "publish_failed_execution"
     /\ execution_id' = id
     /\ returned' = NoExecution
     /\ UNCHANGED args
     /\ IF Len(found) # 1
        THEN /\ result' = NotFound
             /\ UNCHANGED store
        ELSE LET execution == [found[1] EXCEPT !.last_known_state = "FAILED"]
                 put == put_execution(execution, contexts, None, None, "OUTPUT")
             IN /\ result' = Ok
                /\ Stored(put)

\* Mutant of publish_internal_execution: output_event_type is left at its
\* default.
publish_internal_execution_default_event(id) ==
  LET found == get_executions_by_id(id)
  IN /\ op' = "publish_internal_execution"
     /\ execution_id' = id
     /\ returned' = NoExecution
     /\ UNCHANGED <<executor_output, input_artifacts, contexts>>
     /\ IF Len(found) # 1
        THEN /\ result' = NotFound
             /\ UNCHANGED <<output_artifacts, store>>
        ELSE LET execution == [found[1] EXCEPT !.last_known_state = "COMPLETE"]
                 put == put_execution(execution, contexts, None, output_artifacts, "OUTPUT")
             IN /\ result' = Ok
                /\ output_artifacts' = put.output_artifacts
                /\ Stored(put)

\* Lines 133-157.
publish_internal_execution(id) ==
  LET found == get_executions_by_id(id)
  IN /\ op' = "publish_internal_execution"
     /\ execution_id' = id
     /\ returned' = NoExecution
     /\ UNCHANGED <<executor_output, input_artifacts, contexts>>
     /\ IF Len(found) # 1
        THEN /\ result' = NotFound
             /\ UNCHANGED <<output_artifacts, store>>
        ELSE LET execution == [found[1] EXCEPT !.last_known_state = "COMPLETE"]
                 put == put_execution(execution, contexts, None, output_artifacts,
                                      "INTERNAL_OUTPUT")
             IN /\ result' = Ok
                /\ output_artifacts' = put.output_artifacts
                /\ Stored(put)

\* Mutant of register_execution: the execution is prepared in state NEW.
register_execution_new(execution_type, exec_properties) ==
  LET execution == prepare_execution(execution_type, "NEW", exec_properties)
      put == put_execution(execution, contexts, input_artifacts, None, "OUTPUT")
  IN /\ Cardinality(DOMAIN executions) < MaxExecutions
     /\ op' = "register_execution"
     /\ execution_id' = 0
     /\ result' = Ok
     /\ returned' = put.execution
     /\ input_artifacts' = put.input_artifacts
     /\ UNCHANGED <<output_artifacts, executor_output, contexts>>
     /\ Stored(put)

\* Mutant of register_execution: the input artifacts are passed as output
\* artifacts.
register_execution_as_outputs(execution_type, exec_properties) ==
  LET execution == prepare_execution(execution_type, "RUNNING", exec_properties)
      put == put_execution(execution, contexts, None, input_artifacts, "OUTPUT")
  IN /\ Cardinality(DOMAIN executions) < MaxExecutions
     /\ op' = "register_execution"
     /\ execution_id' = 0
     /\ result' = Ok
     /\ returned' = put.execution
     /\ input_artifacts' = put.output_artifacts
     /\ UNCHANGED <<output_artifacts, executor_output, contexts>>
     /\ Stored(put)

\* Lines 160-189.
register_execution(execution_type, exec_properties) ==
  LET execution == prepare_execution(execution_type, "RUNNING", exec_properties)
      put == put_execution(execution, contexts, input_artifacts, None, "OUTPUT")
  IN /\ Cardinality(DOMAIN executions) < MaxExecutions
     /\ op' = "register_execution"
     /\ execution_id' = 0
     /\ result' = Ok
     /\ returned' = put.execution
     /\ input_artifacts' = put.input_artifacts
     /\ UNCHANGED <<output_artifacts, executor_output, contexts>>
     /\ Stored(put)

----------------------------------------------------------------------------
(* Specifications *)

ExecutionIds == 1..(MaxExecutions + 1)
ExecProperties == {"p"}
ContextLists == {<<"c1", "c2">>}
InputArtifacts == {None, Some([in \in {"a"} |-> <<StoredBefore[1]>>])}

NoCall ==
  /\ op = "none"
  /\ execution_id = 0
  /\ result = "none"
  /\ returned = NoExecution

\* The life of executions: an empty execution table, and one-channel
\* arguments that the operations are called with again and again.
Init ==
  /\ executions = [i \in {} |-> NoExecution]
  /\ artifacts = StoredBefore
  /\ events = {}
  /\ associations = {}
  /\ attributions = {}
  /\ output_artifacts \in
       {None} \cup {Some(m) : m \in Mappings({"a"}, SkeletonArtifacts, 1, 1)}
  /\ executor_output \in
       {None} \cup {Some(m) : m \in ExecutorOutputs({"a"}, 1, 1)}
  /\ input_artifacts \in InputArtifacts
  /\ contexts \in ContextLists
  /\ NoCall

Next ==
  \/ \E p \in ExecProperties : register_execution(ExecutionType, p)
  \/ \E id \in ExecutionIds : publish_succeeded_execution(id)
  \/ \E id \in ExecutionIds : publish_cached_execution(id)
  \/ \E id \in ExecutionIds : publish_failed_execution(id)
  \/ \E id \in ExecutionIds : publish_internal_execution(id)

Spec == Init /\ [][Next]_vars

\* The merge on its own: one registered execution, and every skeleton and
\* executor output within the bounds.
InitMerge ==
  /\ executions = [i \in {1} |-> Execution(1, ExecutionType, "RUNNING", "p")]
  /\ artifacts = StoredBefore
  /\ events = {}
  /\ associations = {<<"c1", 1>>}
  /\ attributions = {}
  /\ output_artifacts \in
       {None} \cup {Some(m) : m \in Mappings(SkeletonKeys, SkeletonArtifacts,
                                             MaxLen, MaxArtifacts)}
  /\ executor_output \in
       {None} \cup {Some(m) : m \in ExecutorOutputs(SkeletonKeys, MaxLen, MaxArtifacts)}
  /\ input_artifacts = None
  /\ contexts = <<"c1">>
  /\ NoCall

NextMerge == \E id \in {1, 2} : publish_succeeded_execution(id)

SpecMerge == InitMerge /\ [][NextMerge]_vars

----------------------------------------------------------------------------
(* Vocabulary of the properties *)

Succeeded == "publish_succeeded_execution"
PublishOps == {"publish_succeeded_execution", "publish_cached_execution",
               "publish_failed_execution", "publish_internal_execution"}

\* The caller's skeleton, and the executor's channels, as the call sees them.
Skeleton == output_artifacts.value
Report == executor_output.value
Covered == IF executor_output.present THEN DOMAIN Skeleton \cap DOMAIN Report ELSE {}

\* What an artifact carries apart from its identity and its state.
Payload(a) == <<a.type_id, a.uri, a.custom_properties>>

\* The artifacts of the skeleton, as a set of <<channel, position>>.
Slots == UNION {{<<c, i>> : i \in 1..Len(Skeleton[c])} : c \in DOMAIN Skeleton}

----------------------------------------------------------------------------
(* Properties of publish_succeeded_execution and its merge *)

\* C1: a publish_succeeded_execution call whose merge fails (unknown channel,
\* partial channel update or artifact type changed) writes nothing: the
\* stored executions, artifacts, events and context links are the same after
\* the call as before it.
C1_MergeFailureWritesNothing ==
  [][(op' = Succeeded /\ result' \in MergeErrors) => UNCHANGED store]_vars

\* C1 happens: a partial channel update was refused for an execution that
\* exists and is still RUNNING.
C1_Witness ==
  /\ op = Succeeded
  /\ result = PartialChannelUpdate
  /\ execution_id \in DOMAIN executions
  /\ executions[execution_id].last_known_state = "RUNNING"
  /\ Slots # {}

\* C2: after a publish_succeeded_execution call that returns without error,
\* with or without an executor output, every artifact of the output set is
\* LIVE, in memory and in the store, the execution is COMPLETE, and an OUTPUT
\* event links each artifact to the execution.
C2_SucceededIsLiveCompleteOutput ==
  (op = Succeeded /\ result = Ok) =>
    /\ execution_id \in DOMAIN executions
    /\ executions[execution_id].last_known_state = "COMPLETE"
    /\ \A s \in Slots :
         LET a == Skeleton[s[1]][s[2]]
         IN /\ a.state = "LIVE"
            /\ a.id \in DOMAIN artifacts
            /\ artifacts[a.id].state = "LIVE"
            /\ [execution_id |-> execution_id, artifact_id |-> a.id,
                type |-> "OUTPUT"] \in events

\* C2 happens: a skeleton of two channels was published, one channel
\* overwritten from the executor output and one not.
C2_Witness ==
  /\ op = Succeeded
  /\ result = Ok
  /\ executor_output.present
  /\ \E c \in Covered : Len(Skeleton[c]) > 0
  /\ \E c \in DOMAIN Skeleton \ Covered : Len(Skeleton[c]) > 0

\* C3: no publish_succeeded_execution call, whether its merge succeeds or
\* fails, changes the channels of the skeleton, their lengths or the type_id
\* of any skeleton artifact.
C3_TypeIdStable ==
  [][op' = Succeeded =>
       /\ output_artifacts'.present = output_artifacts.present
       /\ DOMAIN output_artifacts'.value = DOMAIN Skeleton
       /\ \A s \in Slots :
            /\ Len(output_artifacts'.value[s[1]]) = Len(Skeleton[s[1]])
            /\ output_artifacts'.value[s[1]][s[2]].type_id = Skeleton[s[1]][s[2]].type_id]_vars

\* C3 happens: a skeleton artifact carries the executor's payload after a
\* call whose merge failed at a later artifact.
C3_Witness ==
  /\ op = Succeeded
  /\ result = ArtifactTypeChanged
  /\ \E s \in Slots : Skeleton[s[1]][s[2]].uri = "r"

\* C4: when the executor output has a channel name that is not a key of the
\* skeleton, the call fails with the unknown-channel error and the skeleton
\* is as it was, whatever the other channels of the output hold.
C4_UnknownChannelLeavesSkeleton ==
  [][(op' = Succeeded /\ executor_output.present
        /\ ~(DOMAIN Report \subseteq DOMAIN Skeleton)) =>
       (result' = UnknownChannel /\ UNCHANGED output_artifacts)]_vars

\* C4 happens: the refused output also had a channel of the skeleton, of
\* the right length and types, that a merge would have overwritten.
C4_Witness ==
  /\ op = Succeeded
  /\ result = UnknownChannel
  /\ \E c \in Covered :
       /\ Len(Skeleton[c]) > 0
       /\ Len(Report[c]) = Len(Skeleton[c])
       /\ \A i \in 1..Len(Skeleton[c]) :
            /\ Report[c][i].type_id = Skeleton[c][i].type_id
            /\ Skeleton[c][i].uri = "s"

\* The place of a key in the iteration over the skeleton, and the covered
\* channels that the loop reaches before channel c.
Position(c) == CHOOSE k \in 1..Len(ChannelOrder) : ChannelOrder[k] = c
EarlierCovered(c) == {d \in Covered : Position(d) < Position(c)}

LengthMismatch(c) == Len(Report[c]) # Len(Skeleton[c])
PairMismatch(c) ==
  \E i \in 1..Len(Skeleton[c]) :
    i <= Len(Report[c]) /\ Report[c][i].type_id # Skeleton[c][i].type_id

C7_ChannelReplacedAsAWhole ==
  [][op' = Succeeded =>
       \A c \in DOMAIN Skeleton :
         \/ \A i \in 1..Len(Skeleton[c]) :
              Payload(output_artifacts'.value[c][i]) = Payload(Skeleton[c][i])
         \/ /\ c \in Covered
            /\ Len(Report[c]) = Len(Skeleton[c])
            /\ \A i \in 1..Len(Skeleton[c]) :
                 Payload(output_artifacts'.value[c][i]) = Payload(Report[c][i])]_vars

\* C8: a skeleton artifact that has an id and is overwritten from the
\* executor output in a merge that succeeds keeps its id.
C8_OverwriteKeepsId ==
  [][(op' = Succeeded /\ result' \in {Ok, NotFound}) =>
       \A c \in Covered : \A i \in 1..Len(Skeleton[c]) :
         Skeleton[c][i].id # 0 =>
           output_artifacts'.value[c][i].id = Skeleton[c][i].id]_vars

----------------------------------------------------------------------------
(* Properties of the five operations on the store *)

Inputs == Flat(input_artifacts.value)

\* C10: register_execution returns the stored execution, which is RUNNING;
\* an INPUT event links every input artifact to it, every context is
\* associated with it and attributed to every input artifact, and it has no
\* OUTPUT and no INTERNAL_OUTPUT event.
C10_RegisterIsRunningWithInputs ==
  op = "register_execution" =>
    /\ returned.id \in DOMAIN executions
    /\ executions[returned.id] = returned
    /\ returned.last_known_state = "RUNNING"
    /\ \A i \in 1..Len(Inputs) :
         [execution_id |-> returned.id, artifact_id |-> Inputs[i].id,
          type |-> "INPUT"] \in events
    /\ \A k \in 1..Len(contexts) :
         /\ <<contexts[k], returned.id>> \in associations
         /\ \A i \in 1..Len(Inputs) : <<contexts[k], Inputs[i].id>> \in attributions
    /\ \A e \in events : e.execution_id = returned.id => e.type = "INPUT"

\* C10 happens: a second execution was registered with an input artifact
\* and two contexts.
C10_Witness ==
  /\ op = "register_execution"
  /\ returned.id = 2
  /\ Len(Inputs) > 0
  /\ Len(contexts) = 2

\* The event that links an artifact to the execution of the last call.
LinkOf(a, type) == [execution_id |-> execution_id, artifact_id |-> a.id, type |-> type]

\* C11: publish_internal_execution on an existing execution leaves it
\* COMPLETE, links every output artifact to it with an INTERNAL_OUTPUT event,
\* and creates no event of another type.
C11_InternalIsCompleteInternalOutput ==
  [][(op' = "publish_internal_execution" /\ execution_id' \in DOMAIN executions) =>
       /\ result' = Ok
       /\ executions'[execution_id'].last_known_state = "COMPLETE"
       /\ \A s \in Slots :
            [execution_id |-> execution_id',
             artifact_id |-> output_artifacts'.value[s[1]][s[2]].id,
             type |-> "INTERNAL_OUTPUT"] \in events'
       /\ \A e \in events' \ events : e.type = "INTERNAL_OUTPUT"]_vars

\* C11 happens: an internal publish linked an artifact to an execution that
\* has no OUTPUT event.
C11_Witness ==
  /\ op = "publish_internal_execution"
  /\ result = Ok
  /\ Slots # {}
  /\ \A s \in Slots : LinkOf(Skeleton[s[1]][s[2]], "INTERNAL_OUTPUT") \in events
  /\ \A e \in events : e.execution_id = execution_id => e.type # "OUTPUT"

\* C12: publish_failed_execution on an existing execution leaves it FAILED,
\* creates no event and changes no artifact, stored or in memory.
C12_FailedTouchesNoArtifact ==
  [][(op' = "publish_failed_execution" /\ execution_id' \in DOMAIN executions) =>
       /\ result' = Ok
       /\ executions'[execution_id'].last_known_state = "FAILED"
       /\ UNCHANGED <<events, artifacts, attributions, output_artifacts>>]_vars

\* C12 happens: an execution was marked FAILED while the caller held output
\* artifacts that are not stored.
C12_Witness ==
  /\ op = "publish_failed_execution"
  /\ result = Ok
  /\ executions[execution_id].last_known_state = "FAILED"
  /\ \E s \in Slots : Skeleton[s[1]][s[2]].id = 0

\* C13: publish_cached_execution on an existing execution leaves it CACHED,
\* links every output artifact to it with an OUTPUT event, stores every
\* output artifact with the state and payload it was given, and creates no
\* INPUT event.
C13_CachedLinksArtifactsAsGiven ==
  [][(op' = "publish_cached_execution" /\ execution_id' \in DOMAIN executions) =>
       /\ result' = Ok
       /\ executions'[execution_id'].last_known_state = "CACHED"
       /\ \A s \in Slots :
            LET given == Skeleton[s[1]][s[2]]
                published == output_artifacts'.value[s[1]][s[2]]
            IN /\ published.state = given.state
               /\ Payload(published) = Payload(given)
               /\ given.id # 0 => published.id = given.id
               /\ published.id \in DOMAIN artifacts'
               /\ artifacts'[published.id] = published
               /\ [execution_id |-> execution_id', artifact_id |-> published.id,
                   type |-> "OUTPUT"] \in events'
       /\ \A e \in events' \ events : e.type = "OUTPUT"]_vars

\* C13 happens: a cached publish stored an artifact that is still PENDING
\* and carries the skeleton's payload, although an executor output that
\* covers its channel was at hand.
C13_Witness ==
  /\ op = "publish_cached_execution"
  /\ result = Ok
  /\ Covered # {}
  /\ \E s \in Slots :
       LET a == Skeleton[s[1]][s[2]]
       IN /\ a.state = "PENDING"
          /\ a.uri = "s"
          /\ artifacts[a.id] = a

----------------------------------------------------------------------------
(* Properties of the merge, continued *)

\* What publish_succeeded_execution does for the execution id of the step
\* when there is nothing to merge: the skeleton is marked LIVE and, when the
\* execution exists, put with it.
NothingToMerge ==
  LET live == MarkLive(Skeleton)
  IN /\ output_artifacts'.present = output_artifacts.present
     /\ IF execution_id' \notin DOMAIN executions
        THEN /\ result' = NotFound
             /\ output_artifacts'.value = live
             /\ UNCHANGED store
        ELSE LET put == put_execution(
                          [executions[execution_id'] EXCEPT !.last_known_state = "COMPLETE"],
                          contexts, None, Some(live), "OUTPUT")
             IN /\ result' = Ok
                /\ output_artifacts'.value = put.output_artifacts.value
                /\ executions' = put.executions
                /\ artifacts' = put.artifacts
                /\ events' = put.events

\* C14: a call with an executor output that has no channel ends as a call
\* without executor output ends: the same skeleton artifacts, the same
\* stored executions and artifacts, the same events.
C14_EmptyReportIsAbsentReport ==
  [][(op' = Succeeded /\ (~executor_output.present \/ DOMAIN Report = {})) =>
       NothingToMerge]_vars

\* C14 happens: a skeleton with artifacts was published with an executor
\* output that has no channel.
C14_Witness ==
  /\ op = Succeeded
  /\ result = Ok
  /\ executor_output.present
  /\ DOMAIN Report = {}
  /\ Slots # {}

\* The merge of the step succeeded: the call went on to the lookup.
MergeSucceeded == op' = Succeeded /\ result' \in {Ok, NotFound}

\* C15: after a merge that succeeds the skeleton has the channels and the
\* lengths it had, and every artifact of a channel that the executor output
\* does not cover is as it was but for its state, which is LIVE (and but for
\* the id that the store gives to an artifact without one when it is put).
C15_UncoveredOnlyMarkedLive ==
  [][MergeSucceeded =>
       /\ DOMAIN output_artifacts'.value = DOMAIN Skeleton
       /\ \A c \in DOMAIN Skeleton :
            Len(output_artifacts'.value[c]) = Len(Skeleton[c])
       /\ \A c \in DOMAIN Skeleton \ Covered : \A i \in 1..Len(Skeleton[c]) :
            LET before == Skeleton[c][i]
                after == output_artifacts'.value[c][i]
            IN /\ after.state = "LIVE"
               /\ Payload(after) = Payload(before)
               /\ (before.id # 0 \/ result' = NotFound) => after.id = before.id
               /\ ([after EXCEPT !.id = before.id] = [before EXCEPT !.state = "LIVE"])]_vars

\* C15 happens: of two channels with artifacts, one was covered and
\* overwritten and the other, not covered, still has the skeleton's payload.
C15_Witness ==
  /\ op = Succeeded
  /\ result = Ok
  /\ \E c \in Covered : Len(Skeleton[c]) > 0 /\ Skeleton[c][1].uri = "r"
  /\ \E c \in DOMAIN Skeleton \ Covered :
       Len(Skeleton[c]) > 0 /\ Skeleton[c][1].uri = "s" /\ Skeleton[c][1].state = "LIVE"

\* C16: after a merge that succeeds, the skeleton artifact at each position
\* of each covered channel carries the type, payload and properties of the
\* reported artifact at the same position, whatever the ids of the two, and
\* is LIVE.
C16_CoveredCarryReportByPosition ==
  [][MergeSucceeded =>
       \A c \in Covered : \A i \in 1..Len(Skeleton[c]) :
         /\ Len(Report[c]) = Len(Skeleton[c])
         /\ Payload(output_artifacts'.value[c][i]) = Payload(Report[c][i])
         /\ output_artifacts'.value[c][i].state = "LIVE"]_vars

\* C16 happens: a channel of two artifacts was overwritten, and an artifact
\* that had id 1 took the place of a reported artifact with id 2.
C16_Witness ==
  /\ op = Succeeded
  /\ result = Ok
  /\ \E c \in Covered :
       /\ Len(Skeleton[c]) = 2
       /\ \A i \in 1..2 : Skeleton[c][i].uri = "r"
       /\ \E i \in 1..2 : Skeleton[c][i].id = 2 /\ Report[c][i].id = 2

----------------------------------------------------------------------------
(* Properties of the life of an execution *)

\* C17: after publish_internal_execution returns without error, every
\* artifact of its output set is LIVE, as after publish_succeeded_execution.
C17_InternalMarksLive ==
  (op = "publish_internal_execution" /\ result = Ok) =>
    \A s \in Slots :
      /\ Skeleton[s[1]][s[2]].state = "LIVE"
      /\ artifacts[Skeleton[s[1]][s[2]].id].state = "LIVE"

\* The state that a publish operation gives to the execution.
TargetState(operation) ==
  CASE operation = "publish_succeeded_execution" -> "COMPLETE"
    [] operation = "publish_internal_execution" -> "COMPLETE"
    [] operation = "publish_cached_execution" -> "CACHED"
    [] operation = "publish_failed_execution" -> "FAILED"

\* C18 as stated: every publish call on an existing execution succeeds,
\* whatever the state of the execution, and leaves it in the state of the
\* operation.
C18_AsStated ==
  [][(op' \in PublishOps /\ execution_id' \in DOMAIN executions) =>
       /\ result' = Ok
       /\ executions'[execution_id'].last_known_state = TargetState(op')]_vars

\* C18, amended: every publish call on an existing execution, whatever the
\* state of the execution, succeeds and leaves it in the state of the
\* operation, except a publish_succeeded_execution call whose merge fails,
\* which fails with the merge error and leaves the execution as it was.
C18_PublishAcceptedInAnyState ==
  [][(op' \in PublishOps /\ execution_id' \in DOMAIN executions) =>
       \/ /\ result' = Ok
          /\ executions'[execution_id'].last_known_state = TargetState(op')
       \/ /\ op' = Succeeded
          /\ result' \in MergeErrors
          /\ UNCHANGED executions]_vars

\* C18 happens: an execution that an earlier publish had linked to its
\* outputs was published again, as failed, and is FAILED.
C18_Witness ==
  /\ op = "publish_failed_execution"
  /\ result = Ok
  /\ executions[execution_id].last_known_state = "FAILED"
  /\ \E e \in events :
       e.execution_id = execution_id /\ e.type \in {"OUTPUT", "INTERNAL_OUTPUT"}

\* C19: a publish call changes nothing of the stored executions but the
\* last_known_state of the execution it loads: no execution is added or
\* removed, every execution keeps its id, type and properties, and every
\* other execution keeps its whole record.
C19_PublishChangesStateOnly ==
  [][op' \in PublishOps =>
       /\ DOMAIN executions' = DOMAIN executions
       /\ \A e \in DOMAIN executions :
            /\ executions'[e].id = e
            /\ executions'[e].type = executions[e].type
            /\ executions'[e].properties = executions[e].properties
            /\ e # execution_id' => executions'[e] = executions[e]]_vars

\* C19 happens: of two registered executions one was published as cached
\* and the other is still RUNNING with its properties.
C19_Witness ==
  /\ op = "publish_cached_execution"
  /\ result = Ok
  /\ DOMAIN executions = {1, 2}
  /\ executions[execution_id] = Execution(execution_id, ExecutionType, "CACHED", "p")
  /\ \E e \in DOMAIN executions \ {execution_id} :
       executions[e] = Execution(e, ExecutionType, "RUNNING", "p")

ExecutionStates == {"RUNNING", "COMPLETE", "CACHED", "FAILED"}

\* C20: every stored execution is RUNNING, COMPLETE, CACHED or FAILED; it is
\* stored RUNNING by register_execution, stays RUNNING until the first
\* publish call on it that succeeds, and is never RUNNING again after that.
C20_RunningUntilFirstPublish ==
  [][\A e \in DOMAIN executions' :
       /\ executions'[e].last_known_state \in ExecutionStates
       /\ e \notin DOMAIN executions =>
            (op' = "register_execution" /\ executions'[e].last_known_state = "RUNNING")
       /\ e \in DOMAIN executions =>
            /\ executions[e].last_known_state # "RUNNING" =>
                 executions'[e].last_known_state # "RUNNING"
            /\ executions[e].last_known_state = "RUNNING" =>
                 ( executions'[e].last_known_state # "RUNNING"
                   <=> (op' \in PublishOps /\ result' = Ok /\ execution_id' = e) )]_vars

\* C20 happens: a publish call failed on an execution that is no longer
\* RUNNING, beside one that still is.
C20_Witness ==
  /\ op = Succeeded
  /\ result \in MergeErrors
  /\ execution_id \in DOMAIN executions
  /\ executions[execution_id].last_known_state = "FAILED"
  /\ \E e \in DOMAIN executions : executions[e].last_known_state = "RUNNING"

====
